---- MODULE Spec2Model ----
(***************************************************************************)
(* QuickCourt: the booking schema of                                       *)
(* supabase/migrations/20250924062155_rapid_spring.sql (tables bookings,   *)
(* booking_notifications and facility_schedules, their row-level-security  *)
(* policies, constraints and cascades, the functions                       *)
(* check_booking_conflicts, calculate_booking_duration and                 *)
(* create_booking_notification and the two notification triggers) and the  *)
(* in-memory booking route of server/routes.ts.                            *)
(*                                                                         *)
(* A TIME value is modelled as a number of half-hours since 09:00, a DATE, *)
(* a facility and a user as a name.  A row of bookings keeps the columns   *)
(* the functions, policies and triggers read, and total_hours.             *)
(***************************************************************************)
EXTENDS Integers, FiniteSets, Sequences, Bags, TLC

VARIABLES
    bookings,               \* the rows of table bookings
    booking_notifications,  \* the rows of table booking_notifications (a bag)
    nextId,                 \* the next fresh bookings.id (gen_random_uuid)
    lastCheck,              \* the last SELECT check_booking_conflicts(...) and its result
    session,                \* per client session: its check, then its INSERT
    apiBookings,            \* routes.ts: the in-memory list `bookings`
    apiResponse,            \* routes.ts: the HTTP status of the last POST /api/bookings
    facilities,             \* the ids of the rows of table facilities
    facility_schedules,     \* the rows of table facility_schedules
    lastDuration,           \* the last SELECT calculate_booking_duration(...) and its result
    profiles,               \* routes.ts: the Map `profiles`, by userId
    userInput,              \* AICoachPage: the state userInput
    isLoading,              \* AICoachPage: the state isLoading
    conversation,           \* AICoachPage: the state conversation
    pendingCalls            \* AICoachPage: the handleSubmit calls awaiting callGeminiAPI

vars == <<bookings, booking_notifications, nextId, lastCheck, session, apiBookings, apiResponse,
          facilities, facility_schedules, lastDuration, profiles, userInput, isLoading,
          conversation, pendingCalls>>

\* the state of the AI coach page
pageVars == <<userInput, isLoading, conversation, pendingCalls>>

\* the tables of the facilities
facilityVars == <<facilities, facility_schedules>>

\* the state of the Express server
apiVars == <<apiBookings, apiResponse>>

\* the state of the Express server and of the client
appVars == <<apiVars, profiles, pageVars>>

\* the state of the database and of its clients
dbVars == <<bookings, booking_notifications, nextId, lastCheck, session, facilityVars,
            lastDuration>>

-----------------------------------------------------------------------------
(* Bounds *)

MaxBookings == 2
MaxTime == 3
MaxNotifications == 3

-----------------------------------------------------------------------------
(* The data of the schema *)

\* p_exclude_booking_id UUID DEFAULT NULL
NullId == 0

Times == 0..MaxTime

Dates == {"d1", "d2"}

Facilities == {"f1", "f2"}

\* facilities.owner_id is TEXT NOT NULL with no foreign key ("References
\* auth.users.id"): the owner of facility f3 has no row in table users
AllFacilities == Facilities \cup {"f3"}

Customers == {"c1", "c2"}

Owners == {"o1", "o2"}

Users == Customers \cup Owners

\* facilities.owner_id
FacilityOwner(f) == IF f = "f1" THEN "o1" ELSE IF f = "f2" THEN "o2" ELSE "o3"

\* bookings.status CHECK (status IN (...))
BookingStatuses == {"pending", "approved", "denied", "cancelled", "completed"}

\* bookings.payment_status CHECK (payment_status IN (...))
PaymentStatuses == {"pending", "paid", "refunded", "failed"}

\* status IN ('pending', 'approved') of check_booking_conflicts
ActiveStatuses == {"pending", "approved"}

\* auth.uid() and auth.role() of the statement's caller
Actors ==
    [uid : Users, role : {"authenticated"}] \cup [uid : {"admin"}, role : {"service_role"}]

BookingRow(id, f, c, d, s, e, hrs, st, pay) ==
    [id |-> id, facility_id |-> f, customer_id |-> c, booking_date |-> d,
     start_time |-> s, end_time |-> e, total_hours |-> hrs, status |-> st,
     payment_status |-> pay]

-----------------------------------------------------------------------------
(* check_booking_conflicts *)

\* a faulty variant: the comparisons are not strict, so intervals that only
\* touch count as overlapping
ExistingOverlapsQueryInclusive(b, p_start_time, p_end_time) ==
    b.start_time <= p_end_time /\ b.end_time >= p_start_time

\* (start_time < p_end_time AND end_time > p_start_time)
ExistingOverlapsQuery(b, p_start_time, p_end_time) ==
    b.start_time < p_end_time /\ b.end_time > p_start_time

\* a faulty variant: the second disjunct tests that the query contains the
\* booking instead of mirroring the first disjunct
QueryContainsExisting(b, p_start_time, p_end_time) ==
    p_start_time <= b.start_time /\ p_end_time >= b.end_time

\* (p_start_time < end_time AND p_end_time > start_time)
QueryOverlapsExisting(b, p_start_time, p_end_time) ==
    p_start_time < b.end_time /\ p_end_time > b.start_time

\* a faulty variant: the status filter is missing
ConflictRowAnyStatus(b, p_facility_id, p_booking_date, p_start_time, p_end_time, p_exclude_booking_id) ==
    /\ b.facility_id = p_facility_id
    /\ b.booking_date = p_booking_date
    /\ (p_exclude_booking_id = NullId \/ b.id # p_exclude_booking_id)
    /\ \/ ExistingOverlapsQuery(b, p_start_time, p_end_time)
       \/ QueryOverlapsExisting(b, p_start_time, p_end_time)

\* a faulty variant: p_exclude_booking_id is not read
ConflictRowNoExclusion(b, p_facility_id, p_booking_date, p_start_time, p_end_time, p_exclude_booking_id) ==
    /\ b.facility_id = p_facility_id
    /\ b.booking_date = p_booking_date
    /\ b.status \in ActiveStatuses
    /\ \/ ExistingOverlapsQuery(b, p_start_time, p_end_time)
       \/ QueryOverlapsExisting(b, p_start_time, p_end_time)

\* the WHERE clause of the SELECT, for one row b
ConflictRow(b, p_facility_id, p_booking_date, p_start_time, p_end_time, p_exclude_booking_id) ==
    /\ b.facility_id = p_facility_id
    /\ b.booking_date = p_booking_date
    /\ b.status \in ActiveStatuses
    /\ (p_exclude_booking_id = NullId \/ b.id # p_exclude_booking_id)
    /\ \/ ExistingOverlapsQuery(b, p_start_time, p_end_time)
       \/ QueryOverlapsExisting(b, p_start_time, p_end_time)

\* RETURN EXISTS (SELECT 1 FROM bookings WHERE ...)
check_booking_conflicts(p_facility_id, p_booking_date, p_start_time, p_end_time, p_exclude_booking_id) ==
    \E b \in bookings :
        ConflictRow(b, p_facility_id, p_booking_date, p_start_time, p_end_time, p_exclude_booking_id)

-----------------------------------------------------------------------------
(* Row-level security of bookings *)

\* "Service role bypass bookings": FOR ALL USING (auth.role() = 'service_role')
ServiceRoleBypass(actor) == actor.role = "service_role"

\* "Customers can create bookings": FOR INSERT WITH CHECK (auth.uid() = customer_id)
InsertAllowed(actor, row) ==
    actor.uid = row.customer_id \/ ServiceRoleBypass(actor)

\* "Customers can update their own bookings" and "Facility owners can update
\* bookings for their facilities": FOR UPDATE USING (...)
UpdateAllowed(actor, row) ==
    \/ actor.uid = row.customer_id
    \/ FacilityOwner(row.facility_id) = actor.uid
    \/ ServiceRoleBypass(actor)

-----------------------------------------------------------------------------
(* Notifications *)

\* user_id UUID NOT NULL REFERENCES users(id)
UserExists(p_user_id) == p_user_id \in Users

NotificationRow(p_booking_id, p_user_id, p_notification_type) ==
    [booking_id |-> p_booking_id, user_id |-> p_user_id,
     notification_type |-> p_notification_type]

\* INSERT INTO booking_notifications (...) VALUES (...)
create_booking_notification(rows, p_booking_id, p_user_id, p_notification_type) ==
    rows (+) SetToBag({NotificationRow(p_booking_id, p_user_id, p_notification_type)})

\* a faulty variant: the notification goes to the customer of the booking
notify_customer_on_booking(rows, new) ==
    create_booking_notification(rows, new.id, new.customer_id, "new_booking")

\* AFTER INSERT ON bookings: one 'new_booking' row for the facility's owner
notify_owner_on_booking(rows, new) ==
    create_booking_notification(rows, new.id, FacilityOwner(new.facility_id), "new_booking")

\* a faulty variant: the IF is missing, every UPDATE notifies
notify_customer_on_update(rows, old, new) ==
    create_booking_notification(rows, new.id, new.customer_id, "status_update")

\* AFTER UPDATE ON bookings: IF OLD.status != NEW.status, one 'status_update'
\* row for the customer
notify_customer_on_status_change(rows, old, new) ==
    IF old.status # new.status
    THEN create_booking_notification(rows, new.id, new.customer_id, "status_update")
    ELSE rows

-----------------------------------------------------------------------------
(* calculate_booking_duration *)

\* n / d rounded to the nearest integer, halves away from zero, as numeric
\* arithmetic rounds at the last digit it keeps
RoundDiv(n, d) ==
    IF n >= 0 THEN (2 * n + d) \div (2 * d) ELSE -((2 * (-n) + d) \div (2 * d))

\* the TIME of a booking row, half-hours since 09:00, in seconds since 09:00
Seconds(t) == 1800 * t

\* a faulty variant: a duration below zero is raised to zero
calculate_booking_duration_clamped(p_start_time, p_end_time) ==
    IF p_end_time > p_start_time
    THEN RoundDiv((p_end_time - p_start_time) * 10000, 3600)
    ELSE 0

\* RETURN EXTRACT(EPOCH FROM (p_end_time - p_start_time)) / 3600.0, the
\* arguments in seconds since 09:00 and the numeric result in ten-thousandths
\* of an hour (1.5 is 15000).  CREATE FUNCTION drops the (4,2) of RETURNS
\* DECIMAL(4,2), so the quotient is returned with the digits of the division.
calculate_booking_duration(p_start_time, p_end_time) ==
    RoundDiv((p_end_time - p_start_time) * 10000, 3600)

\* total_hours DECIMAL(4,2): a numeric value as the column stores it, in
\* hundredths of an hour
ToTotalHours(duration) == RoundDiv(duration, 100)

NoDuration == [called |-> FALSE, start_time |-> 0, end_time |-> 0, result |-> 0]

-----------------------------------------------------------------------------
(* The data of the profile routes and of the AI coach page *)

\* the :userId of the profile routes
ProfileUsers == {"u1", "u2"}

\* type ProfileData
ProfileFields == {"fullName", "phone", "address", "businessName", "businessAddress"}

\* the keys a JSON body can carry: those of ProfileData and one more
ProfileKeys == ProfileFields \cup {"role"}

\* a key the object does not have
Undefined == "undefined"

\* profiles.has(userId) is false: no key has a value
NoProfile == [k \in ProfileKeys |-> Undefined]

\* a message of the conversation: the code stores text and timestamp; by
\* records which statement appended it, the coach's ("coach") or the one
\* that appends the visitor's input ("user"). A text is a sequence of
\* characters; a fixed text of the page is a sequence of one element.
Message(by, text) == [by |-> by, text |-> text]

\* useState<AIResponse[]>([{text: "Hi there! ...", ...}])
Greeting == Message("coach", <<"Hi there!">>)

-----------------------------------------------------------------------------
(* Statements on bookings *)

\* INSERT INTO bookings (...) VALUES (...): the row-level-security check of the
\* new row, the insert with a fresh id, and trigger_notify_owner_on_booking in
\* the same statement.  No constraint or trigger of bookings calls
\* check_booking_conflicts or compares start_time with end_time.  A statement
\* the policies reject changes nothing, and neither does a statement whose
\* trigger raises: the INSERT of the notification runs inside the INSERT of
\* the booking, and a violated foreign key of booking_notifications.user_id
\* aborts both.
InsertRow(actor, f, c, d, s, e, hrs, st, pay) ==
    LET new == BookingRow(nextId, f, c, d, s, e, hrs, st, pay) IN
    /\ f \in facilities
    /\ st \in BookingStatuses
    /\ pay \in PaymentStatuses
    /\ InsertAllowed(actor, new)
    /\ UserExists(FacilityOwner(new.facility_id))
    /\ bookings' = bookings \cup {new}
    /\ nextId' = nextId + 1
    /\ booking_notifications' = notify_owner_on_booking(booking_notifications, new)

InsertBooking(actor, f, c, d, s, e, hrs, st, pay) ==
    /\ InsertRow(actor, f, c, d, s, e, hrs, st, pay)
    /\ UNCHANGED <<lastCheck, session, appVars, facilityVars, lastDuration>>

\* UPDATE bookings SET status = newStatus WHERE id = id: the rows the caller's
\* UPDATE policies show, the CHECK on status, and
\* trigger_notify_customer_on_status_change in the same statement.  Nothing
\* compares the old status with the new one.
UpdateBookingStatus(actor, id, newStatus) ==
    /\ newStatus \in BookingStatuses
    /\ \E old \in bookings :
        LET new == [old EXCEPT !.status = newStatus] IN
        /\ old.id = id
        /\ UpdateAllowed(actor, old)
        /\ bookings' = (bookings \ {old}) \cup {new}
        /\ booking_notifications' =
               notify_customer_on_status_change(booking_notifications, old, new)
    /\ UNCHANGED <<nextId, lastCheck, session, appVars, facilityVars, lastDuration>>

-----------------------------------------------------------------------------
(* The booking lifecycle on the database *)

NoCheck ==
    [called |-> FALSE, facility_id |-> "f1", booking_date |-> "d1", start_time |-> 0,
     end_time |-> 0, exclude |-> NullId, result |-> FALSE]

Sessions == {"s1", "s2"}

IdleSession ==
    [pc |-> "idle", facility_id |-> "f1", booking_date |-> "d1", start_time |-> 0,
     end_time |-> 0, conflict |-> FALSE, id |-> NullId]

Init ==
    /\ bookings = {}
    /\ booking_notifications = EmptyBag
    /\ nextId = 1
    /\ lastCheck = NoCheck
    /\ session = [s \in Sessions |-> IdleSession]
    /\ apiBookings = << >>
    /\ apiResponse = 0
    /\ facilities = AllFacilities
    /\ facility_schedules = {}
    /\ lastDuration = NoDuration
    /\ profiles = [u \in ProfileUsers |-> NoProfile]
    /\ userInput = << >>
    /\ isLoading = FALSE
    /\ conversation = <<Greeting>>
    /\ pendingCalls = 0

\* status: omitted (DEFAULT 'pending') or given, as the sample INSERT of the
\* migration gives 'approved'
InsertStatusInputs == {"pending", "approved"}

\* payment_status: omitted (DEFAULT 'pending')
InsertPaymentInputs == {"pending"}

\* total_hours 1.0 of the sample INSERT, in hundredths of an hour
SampleTotalHours == 100

\* total_hours: the value the statement gives, as the sample INSERT gives 1.0
InsertHoursInputs == {SampleTotalHours}

\* the bounds of the model: at most MaxBookings rows are inserted and at most
\* MaxNotifications notifications are stored
RoomForBooking == nextId <= MaxBookings

RoomForNotification == BagCardinality(booking_notifications) < MaxNotifications

Next ==
    \/ /\ RoomForBooking
       /\ RoomForNotification
       /\ \E actor \in Actors, f \in AllFacilities, c \in Customers, d \in Dates,
             s \in Times, e \in Times, hrs \in InsertHoursInputs, st \in InsertStatusInputs,
             pay \in InsertPaymentInputs :
             InsertBooking(actor, f, c, d, s, e, hrs, st, pay)
    \/ /\ RoomForNotification
       /\ \E actor \in Actors, id \in 1..MaxBookings, newStatus \in BookingStatuses :
             UpdateBookingStatus(actor, id, newStatus)

Spec == Init /\ [][Next]_vars

-----------------------------------------------------------------------------
(* The two notification triggers: the same statements, every booking on    *)
(* one date and interval, which the triggers read only for the message text *)

NextNotify ==
    \/ /\ RoomForBooking
       /\ RoomForNotification
       /\ \E actor \in Actors, f \in AllFacilities, c \in Customers, st \in InsertStatusInputs,
             hrs \in InsertHoursInputs, pay \in InsertPaymentInputs :
             InsertBooking(actor, f, c, "d1", 0, 1, hrs, st, pay)
    \/ /\ RoomForNotification
       /\ \E actor \in Actors, id \in 1..MaxBookings, newStatus \in BookingStatuses :
             UpdateBookingStatus(actor, id, newStatus)

SpecNotify == Init /\ [][NextNotify]_vars

-----------------------------------------------------------------------------
(* check_booking_conflicts as a function of the table and its arguments *)

\* [start_time, end_time) with start_time < end_time
ValidIntervals == {iv \in Times \X Times : iv[1] < iv[2]}

StoredRowInputs ==
    [facility_id : Facilities, booking_date : Dates, interval : ValidIntervals,
     status : BookingStatuses]

\* any table of at most MaxBookings rows, of any status, overlapping or not,
\* each with the notification of its insert: the table after n INSERTs that
\* give the status
InitConflict ==
    /\ \E n \in 0..MaxBookings : \E rows \in [1..n -> StoredRowInputs] :
          /\ bookings = {BookingRow(i, rows[i].facility_id, "c1", rows[i].booking_date,
                                    rows[i].interval[1], rows[i].interval[2],
                                    SampleTotalHours, rows[i].status, "pending") : i \in 1..n}
          /\ nextId = n + 1
          /\ booking_notifications =
                 SetToBag({NotificationRow(i, FacilityOwner(rows[i].facility_id), "new_booking") :
                              i \in 1..n})
    /\ lastCheck = NoCheck
    /\ session = [s \in Sessions |-> IdleSession]
    /\ apiBookings = << >>
    /\ apiResponse = 0
    /\ facilities = AllFacilities
    /\ facility_schedules = {}
    /\ lastDuration = NoDuration
    /\ profiles = [u \in ProfileUsers |-> NoProfile]
    /\ userInput = << >>
    /\ isLoading = FALSE
    /\ conversation = <<Greeting>>
    /\ pendingCalls = 0

\* SELECT check_booking_conflicts(f, d, s, e, x): read-only, the call and its
\* result are recorded
CheckBookingConflicts(f, d, s, e, x) ==
    /\ ~lastCheck.called
    /\ lastCheck' = [called |-> TRUE, facility_id |-> f, booking_date |-> d,
                     start_time |-> s, end_time |-> e, exclude |-> x,
                     result |-> check_booking_conflicts(f, d, s, e, x)]
    /\ UNCHANGED <<bookings, booking_notifications, nextId, session, appVars, facilityVars, lastDuration>>

NextConflict ==
    \E f \in Facilities, d \in Dates, iv \in ValidIntervals, x \in {NullId} \cup (1..MaxBookings) :
        CheckBookingConflicts(f, d, iv[1], iv[2], x)

SpecConflict == InitConflict /\ [][NextConflict]_vars

-----------------------------------------------------------------------------
(* Two client sessions, each calling check_booking_conflicts and then        *)
(* inserting the row it checked, as two statements                           *)

\* auth.uid() of a session
SessionUser(s) == IF s = "s1" THEN "c1" ELSE "c2"

SessionActor(s) == [uid |-> SessionUser(s), role |-> "authenticated"]

\* SELECT check_booking_conflicts(f, d, s, e): the session keeps the answer
SessionCheck(sn, f, d, s, e) ==
    /\ session[sn].pc = "idle"
    /\ session' = [session EXCEPT ![sn] =
           [pc |-> "checked", facility_id |-> f, booking_date |-> d, start_time |-> s,
            end_time |-> e, conflict |-> check_booking_conflicts(f, d, s, e, NullId),
            id |-> NullId]]
    /\ UNCHANGED <<bookings, booking_notifications, nextId, lastCheck, appVars, facilityVars, lastDuration>>

\* INSERT INTO bookings of the row the session checked, status and
\* payment_status left to their DEFAULT.  The statement does not read the
\* answer of the check, and the table has no constraint that does.
SessionInsert(sn) ==
    /\ session[sn].pc = "checked"
    /\ InsertRow(SessionActor(sn), session[sn].facility_id, SessionUser(sn),
                 session[sn].booking_date, session[sn].start_time, session[sn].end_time,
                 SampleTotalHours, "pending", "pending")
    /\ session' = [session EXCEPT ![sn].pc = "inserted", ![sn].id = nextId]
    /\ UNCHANGED <<lastCheck, appVars, facilityVars, lastDuration>>

NextRace ==
    \/ \E sn \in Sessions, f \in Facilities, d \in Dates, iv \in ValidIntervals :
          SessionCheck(sn, f, d, iv[1], iv[2])
    \/ /\ RoomForBooking
       /\ RoomForNotification
       /\ \E sn \in Sessions : SessionInsert(sn)

SpecRace == Init /\ [][NextRace]_vars

-----------------------------------------------------------------------------
(* server/routes.ts: POST /api/bookings on the in-memory list *)

MaxApiBookings == 2

MaxMock == 1

\* a field of the request body that is missing or empty is falsy
Falsy(v) == v = ""

\* timeSlot?.start and timeSlot?.end of a body without timeSlot are undefined
NoTimeSlot == [start |-> "", end |-> ""]

\* a faulty variant: the length itself, the id of the last booking
NewApiIdLength == ToString(Len(apiBookings))

\* String(bookings.length + 1)
NewApiId == ToString(Len(apiBookings) + 1)

\* totalPrice ?? 0, an absent totalPrice being -1 here
TotalPriceOrZero(totalPrice) == IF totalPrice = -1 THEN 0 ELSE totalPrice

\* the object literal of the handler; createdAt, a timestamp, is left out
NewApiBooking(userId, facilityId, courtId, date, timeSlot, totalPrice) ==
    [id |-> NewApiId, userId |-> userId, facilityId |-> facilityId, courtId |-> courtId,
     date |-> date, timeSlot |-> timeSlot, status |-> "confirmed",
     totalPrice |-> TotalPriceOrZero(totalPrice), paymentStatus |-> "pending"]

\* a faulty variant: timeSlot?.end is not tested
PostBookingEndUnchecked(userId, facilityId, courtId, date, timeSlot, totalPrice) ==
    /\ IF \/ Falsy(userId) \/ Falsy(facilityId) \/ Falsy(courtId) \/ Falsy(date)
          \/ Falsy(timeSlot.start)
       THEN /\ apiResponse' = 400
            /\ UNCHANGED apiBookings
       ELSE /\ apiBookings' = Append(apiBookings,
                   NewApiBooking(userId, facilityId, courtId, date, timeSlot, totalPrice))
            /\ apiResponse' = 201
    /\ UNCHANGED <<dbVars, profiles, pageVars>>

\* app.post('/api/bookings', ...): 400 on a missing field, otherwise push and 201
PostBooking(userId, facilityId, courtId, date, timeSlot, totalPrice) ==
    /\ IF \/ Falsy(userId) \/ Falsy(facilityId) \/ Falsy(courtId) \/ Falsy(date)
          \/ Falsy(timeSlot.start) \/ Falsy(timeSlot.end)
       THEN /\ apiResponse' = 400
            /\ UNCHANGED apiBookings
       ELSE /\ apiBookings' = Append(apiBookings,
                   NewApiBooking(userId, facilityId, courtId, date, timeSlot, totalPrice))
            /\ apiResponse' = 201
    /\ UNCHANGED <<dbVars, profiles, pageVars>>

\* [...mockBookings]: the list the server starts with
MockBooking(i) ==
    [id |-> ToString(i), userId |-> "u1", facilityId |-> "f1", courtId |-> "k1",
     date |-> "d1", timeSlot |-> [start |-> "09:00", end |-> "10:00"],
     status |-> "confirmed", totalPrice |-> 50, paymentStatus |-> "paid"]

InitApi ==
    /\ bookings = {}
    /\ booking_notifications = EmptyBag
    /\ nextId = 1
    /\ lastCheck = NoCheck
    /\ session = [s \in Sessions |-> IdleSession]
    /\ \E n \in 0..MaxMock : apiBookings = [i \in 1..n |-> MockBooking(i)]
    /\ apiResponse = 0
    /\ facilities = AllFacilities
    /\ facility_schedules = {}
    /\ lastDuration = NoDuration
    /\ profiles = [u \in ProfileUsers |-> NoProfile]
    /\ userInput = << >>
    /\ isLoading = FALSE
    /\ conversation = <<Greeting>>
    /\ pendingCalls = 0

ApiTimeInputs == {"", "09:00", "10:00"}

ApiTimeSlotInputs == {NoTimeSlot} \cup [start : ApiTimeInputs, end : ApiTimeInputs]

ApiPriceInputs == {-1, 0, 50}

NextApi ==
    /\ Len(apiBookings) < MaxMock + MaxApiBookings
    /\ \E userId \in {"", "u1", "u2"}, facilityId \in {"", "f1"}, courtId \in {"", "k1"},
          date \in {"", "d1"}, timeSlot \in ApiTimeSlotInputs, totalPrice \in ApiPriceInputs :
          PostBooking(userId, facilityId, courtId, date, timeSlot, totalPrice)

SpecApi == InitApi /\ [][NextApi]_vars

\* the amount of the requests of SpecPost
PostPriceInputs == {50}

\* POST /api/bookings by one user with one amount: the handler's answer and
\* the id it assigns depend on neither
NextPost ==
    /\ Len(apiBookings) < MaxMock + MaxApiBookings
    /\ \E userId \in {"", "u1"}, facilityId \in {"", "f1"}, courtId \in {"", "k1"},
          date \in {"", "d1"}, timeSlot \in ApiTimeSlotInputs, totalPrice \in PostPriceInputs :
          PostBooking(userId, facilityId, courtId, date, timeSlot, totalPrice)

SpecPost == InitApi /\ [][NextPost]_vars

-----------------------------------------------------------------------------
(* calculate_booking_duration as a function of its arguments *)

\* seconds past a half-hour: none, one second, ten seconds, twenty minutes
SecondOffsets == {0, 1, 10, 1200}

\* the TIME arguments, in seconds since 09:00
ClockTimes == {Seconds(h) + x : h \in Times, x \in SecondOffsets}

\* SELECT calculate_booking_duration(s, e): read-only, the call and its result
\* are recorded
CalculateBookingDuration(s, e) ==
    /\ ~lastDuration.called
    /\ lastDuration' = [called |-> TRUE, start_time |-> s, end_time |-> e,
                        result |-> calculate_booking_duration(s, e)]
    /\ UNCHANGED <<bookings, booking_notifications, nextId, lastCheck, session, appVars,
                   facilityVars>>

NextDuration == \E s \in ClockTimes, e \in ClockTimes : CalculateBookingDuration(s, e)

SpecDuration == Init /\ [][NextDuration]_vars

-----------------------------------------------------------------------------
(* DELETE statements that reach table bookings *)

\* "Service role bypass bookings", FOR ALL, is the only policy of bookings
\* that applies to a DELETE
DeleteAllowed(actor, row) == ServiceRoleBypass(actor)

\* "Facility owners can manage own facilities" and "Service role bypass
\* facilities", both FOR ALL
FacilityDeleteAllowed(actor, f) ==
    FacilityOwner(f) = actor.uid \/ ServiceRoleBypass(actor)

\* booking_id UUID NOT NULL REFERENCES bookings(id) ON DELETE CASCADE: the
\* notifications left when the bookings ids are deleted
NotificationsWithout(rows, ids) ==
    [n \in {m \in BagToSet(rows) : m.booking_id \notin ids} |-> rows[n]]

\* DELETE FROM bookings WHERE id = id
DeleteBooking(actor, id) ==
    /\ \E old \in bookings :
          /\ old.id = id
          /\ DeleteAllowed(actor, old)
          /\ bookings' = bookings \ {old}
          /\ booking_notifications' = NotificationsWithout(booking_notifications, {id})
    /\ UNCHANGED <<nextId, lastCheck, session, appVars, facilityVars, lastDuration>>

\* DELETE FROM facilities WHERE id = f: the rows of facility_schedules and of
\* bookings that reference the facility go with it (facility_id ... REFERENCES
\* facilities(id) ON DELETE CASCADE), and with the bookings their notifications
DeleteFacility(actor, f) ==
    /\ f \in facilities
    /\ FacilityDeleteAllowed(actor, f)
    /\ facilities' = facilities \ {f}
    /\ facility_schedules' = {s \in facility_schedules : s.facility_id # f}
    /\ bookings' = {b \in bookings : b.facility_id # f}
    /\ booking_notifications' =
           NotificationsWithout(booking_notifications,
                                {b.id : b \in {r \in bookings : r.facility_id = f}})
    /\ UNCHANGED <<nextId, lastCheck, session, appVars, lastDuration>>

NextDelete ==
    \/ /\ RoomForBooking
       /\ RoomForNotification
       /\ \E actor \in Actors, f \in AllFacilities, c \in Customers, st \in InsertStatusInputs,
             hrs \in InsertHoursInputs, pay \in InsertPaymentInputs :
             InsertBooking(actor, f, c, "d1", 0, 1, hrs, st, pay)
    \/ /\ RoomForNotification
       /\ \E actor \in Actors, id \in 1..MaxBookings, newStatus \in BookingStatuses :
             UpdateBookingStatus(actor, id, newStatus)
    \/ \E actor \in Actors, id \in 1..MaxBookings : DeleteBooking(actor, id)
    \/ \E actor \in Actors, f \in AllFacilities : DeleteFacility(actor, f)

SpecDelete == Init /\ [][NextDelete]_vars

-----------------------------------------------------------------------------
(* Table facility_schedules *)

MaxSlots == 3

\* price_per_hour in cents
ScheduleRow(f, day, s, e, price) ==
    [facility_id |-> f, day_of_week |-> day, start_time |-> s, end_time |-> e,
     price_per_hour |-> price]

\* the columns of UNIQUE(facility_id, day_of_week, start_time, end_time)
ScheduleKey(r) == <<r.facility_id, r.day_of_week, r.start_time, r.end_time>>

\* a faulty variant: the constraint also lists price_per_hour
UniqueViolationWithPrice(rows, new) == new \in rows

\* the row new would break the UNIQUE constraint of the table rows
UniqueViolation(rows, new) == \E r \in rows : ScheduleKey(r) = ScheduleKey(new)

\* a faulty variant: the days are counted from 1 to 7
DayOfWeekCheckFromOne(day) == day >= 1 /\ day <= 7

\* CHECK (day_of_week >= 0 AND day_of_week <= 6)
DayOfWeekCheck(day) == day >= 0 /\ day <= 6

\* "Facility owners can manage schedules": FOR ALL USING (EXISTS (SELECT 1
\* FROM facilities WHERE facilities.id = facility_id AND owner_id = auth.uid()))
ScheduleManageAllowed(actor, f) == f \in facilities /\ FacilityOwner(f) = actor.uid

\* INSERT INTO facility_schedules (...) VALUES (...): a statement that the
\* policy, the CHECK or the UNIQUE constraint rejects changes nothing
InsertSchedule(actor, f, day, s, e, price) ==
    LET new == ScheduleRow(f, day, s, e, price) IN
    /\ ScheduleManageAllowed(actor, f)
    /\ DayOfWeekCheck(day)
    /\ ~UniqueViolation(facility_schedules, new)
    /\ facility_schedules' = facility_schedules \cup {new}
    /\ UNCHANGED <<bookings, booking_notifications, nextId, lastCheck, session, appVars,
                   facilities, lastDuration>>

\* INSERT INTO facility_schedules ... ON CONFLICT (facility_id, day_of_week,
\* start_time, end_time) DO NOTHING, as the sample data is inserted: a row
\* whose tuple is stored already is skipped
InsertScheduleOnConflictDoNothing(actor, f, day, s, e, price) ==
    LET new == ScheduleRow(f, day, s, e, price) IN
    /\ ScheduleManageAllowed(actor, f)
    /\ DayOfWeekCheck(day)
    /\ IF UniqueViolation(facility_schedules, new)
       THEN UNCHANGED facility_schedules
       ELSE facility_schedules' = facility_schedules \cup {new}
    /\ UNCHANGED <<bookings, booking_notifications, nextId, lastCheck, session, appVars,
                   facilities, lastDuration>>

\* UPDATE facility_schedules SET day_of_week = day, start_time = s, end_time = e
\* WHERE the row is old: the CHECK and the UNIQUE constraint apply to the new row
UpdateSchedule(actor, old, day, s, e) ==
    LET new == [old EXCEPT !.day_of_week = day, !.start_time = s, !.end_time = e] IN
    /\ old \in facility_schedules
    /\ ScheduleManageAllowed(actor, old.facility_id)
    /\ DayOfWeekCheck(day)
    /\ ~UniqueViolation(facility_schedules \ {old}, new)
    /\ facility_schedules' = (facility_schedules \ {old}) \cup {new}
    /\ UNCHANGED <<bookings, booking_notifications, nextId, lastCheck, session, appVars,
                   facilities, lastDuration>>

\* day_of_week as a statement may give it: Sunday, Monday, Saturday and the
\* two closest values out of range
DayInputs == {-1, 0, 1, 6, 7}

\* 09:00-10:00, as the sample morning session, and 09:00-10:30
ScheduleIntervalInputs == {<<0, 2>>, <<0, 3>>}

\* price_per_hour: DEFAULT 50.00, and 40.00 of the sample tennis courts
SchedulePriceInputs == {5000, 4000}

RoomForSlot == Cardinality(facility_schedules) < MaxSlots

NextSchedule ==
    \/ /\ RoomForSlot
       /\ \E actor \in Actors, f \in AllFacilities, day \in DayInputs,
             iv \in ScheduleIntervalInputs, price \in SchedulePriceInputs :
             InsertSchedule(actor, f, day, iv[1], iv[2], price)
    \/ /\ RoomForSlot
       /\ \E actor \in Actors, f \in AllFacilities, day \in DayInputs,
             iv \in ScheduleIntervalInputs, price \in SchedulePriceInputs :
             InsertScheduleOnConflictDoNothing(actor, f, day, iv[1], iv[2], price)
    \/ \E actor \in Actors, old \in facility_schedules, day \in DayInputs,
          iv \in ScheduleIntervalInputs :
          UpdateSchedule(actor, old, day, iv[1], iv[2])

SpecSchedule == Init /\ [][NextSchedule]_vars

-----------------------------------------------------------------------------
(* One slot over time: the bookings of customer c1 for facility f1 on one   *)
(* date, inserted and moved from status to status                           *)

NextRelease ==
    \/ /\ RoomForBooking
       /\ RoomForNotification
       /\ \E actor \in Actors, iv \in ValidIntervals, hrs \in InsertHoursInputs,
             st \in InsertStatusInputs, pay \in InsertPaymentInputs :
             InsertBooking(actor, "f1", "c1", "d1", iv[1], iv[2], hrs, st, pay)
    \/ /\ RoomForNotification
       /\ \E actor \in Actors, id \in 1..MaxBookings, newStatus \in BookingStatuses :
             UpdateBookingStatus(actor, id, newStatus)

SpecRelease == Init /\ [][NextRelease]_vars

-----------------------------------------------------------------------------
(* routes.ts: the profile routes *)

\* JSON null
Null == "null"

\* the values of a key in a request body
BodyValues(k) ==
    IF k = "fullName" THEN {Undefined, Null, "x"}
    ELSE IF k \in {"phone", "address", "role"} THEN {Undefined, "x"}
    ELSE {Undefined}

\* req.body || {}
ProfileBodies == {b \in [ProfileKeys -> {Undefined, Null, "x"}] :
                    \A k \in ProfileKeys : b[k] \in BodyValues(k)}

\* the object ensureProfile sets for a missing userId
DefaultProfile(userId) ==
    [k \in ProfileKeys |->
        IF k = "fullName" THEN "User " \o userId
        ELSE IF k \in ProfileFields THEN "" ELSE Undefined]

\* the Map after ensureProfile(userId); its entry at userId is the value returned
ensureProfile(userId) ==
    IF profiles[userId] = NoProfile
    THEN [profiles EXCEPT ![userId] = DefaultProfile(userId)]
    ELSE profiles

\* body.k ?? ''
OrEmpty(v) == IF v \in {Undefined, Null} THEN "" ELSE v

\* {fullName: body.fullName ?? '', ..., businessAddress: body.businessAddress ?? ''}
ReplacedProfile(body) ==
    [k \in ProfileKeys |-> IF k \in ProfileFields THEN OrEmpty(body[k]) ELSE Undefined]

\* {...existing, ...update}
MergedProfile(existing, update) ==
    [k \in ProfileKeys |-> IF update[k] # Undefined THEN update[k] ELSE existing[k]]

\* GET /api/profile/:userId
GetProfile(userId) ==
    /\ profiles' = ensureProfile(userId)
    /\ UNCHANGED <<dbVars, apiVars, pageVars>>

\* PUT /api/profile/:userId
PutProfile(userId, body) ==
    /\ profiles' = [profiles EXCEPT ![userId] = ReplacedProfile(body)]
    /\ UNCHANGED <<dbVars, apiVars, pageVars>>

\* a PATCH that builds its object as PUT does
PatchProfileReplacing(userId, update) ==
    /\ profiles' = [ensureProfile(userId) EXCEPT ![userId] = ReplacedProfile(update)]
    /\ UNCHANGED <<dbVars, apiVars, pageVars>>

\* PATCH /api/profile/:userId
PatchProfile(userId, update) ==
    /\ profiles' = [ensureProfile(userId) EXCEPT
                      ![userId] = MergedProfile(ensureProfile(userId)[userId], update)]
    /\ UNCHANGED <<dbVars, apiVars, pageVars>>

NextProfile ==
    \/ \E userId \in ProfileUsers : GetProfile(userId)
    \/ \E userId \in ProfileUsers, body \in ProfileBodies : PutProfile(userId, body)
    \/ \E userId \in ProfileUsers, update \in ProfileBodies : PatchProfile(userId, update)

SpecProfile == Init /\ [][NextProfile]_vars

-----------------------------------------------------------------------------
(* AICoachPage.tsx: the AI coach page *)

\* the exchanges (one submit and its reply) a behaviour may hold
MaxExchanges == 2

\* what the visitor can have typed: nothing, a blank, a word, a padded word
Inputs == {<< >>, <<" ">>, <<"a">>, <<" ", "a", " ">>}

RECURSIVE TrimStart(_)
TrimStart(s) == IF s # << >> /\ Head(s) = " " THEN TrimStart(Tail(s)) ELSE s

RECURSIVE TrimEnd(_)
TrimEnd(s) ==
    IF s # << >> /\ s[Len(s)] = " " THEN TrimEnd(SubSeq(s, 1, Len(s) - 1)) ELSE s

\* String.prototype.trim
Trim(s) == TrimEnd(TrimStart(s))

\* how the request of callGeminiAPI can end
Outcomes == {"answer", "noCandidates", "errorStatus", "malformed", "networkError"}

\* the string callGeminiAPI returns
callGeminiAPI(outcome) ==
    CASE outcome = "answer"       -> <<"advice">>
      [] outcome = "noCandidates" -> <<"I couldn't generate a response.">>
      [] outcome = "errorStatus"  -> <<"Sorry, I encountered an error.">>
      [] OTHER                    -> <<"Sorry, there was a network error.">>

\* a form whose fields are never disabled
FormNeverDisabled == FALSE

\* disabled={isLoading} on the input and on the submit button
FormDisabled == isLoading

RoomForExchange == Len(conversation) < 1 + 2 * MaxExchanges

\* onChange={(e) => setUserInput(e.target.value)}
ChangeInput(text) ==
    /\ ~FormDisabled
    /\ userInput' = text
    /\ UNCHANGED <<dbVars, apiVars, profiles, isLoading, conversation, pendingCalls>>

\* handleSubmit up to the await of callGeminiAPI
handleSubmit ==
    /\ ~FormDisabled
    /\ IF Trim(userInput) = << >>
       THEN UNCHANGED pageVars
       ELSE /\ conversation' = Append(conversation, Message("user", userInput))
            /\ userInput' = << >>
            /\ isLoading' = TRUE
            /\ pendingCalls' = pendingCalls + 1
    /\ UNCHANGED <<dbVars, apiVars, profiles>>

\* a continuation that resets isLoading only after an answer
ApiRespondsNoFinally(outcome) ==
    /\ pendingCalls > 0
    /\ conversation' = Append(conversation, Message("coach", callGeminiAPI(outcome)))
    /\ isLoading' = (outcome # "answer")
    /\ pendingCalls' = pendingCalls - 1
    /\ UNCHANGED <<dbVars, apiVars, profiles, userInput>>

\* handleSubmit after the await: callGeminiAPI has returned (it catches every
\* error itself), the reply is appended and finally resets isLoading
ApiResponds(outcome) ==
    /\ pendingCalls > 0
    /\ conversation' = Append(conversation, Message("coach", callGeminiAPI(outcome)))
    /\ isLoading' = FALSE
    /\ pendingCalls' = pendingCalls - 1
    /\ UNCHANGED <<dbVars, apiVars, profiles, userInput>>

NextCoach ==
    \/ \E text \in Inputs : ChangeInput(text)
    \/ RoomForExchange /\ handleSubmit
    \/ \E outcome \in Outcomes : ApiResponds(outcome)

SpecCoach == Init /\ [][NextCoach]_vars

\* the request of callGeminiAPI ends: fetch resolves or rejects
SpecCoachFair ==
    Init /\ [][NextCoach]_vars /\ WF_vars(\E outcome \in Outcomes : ApiResponds(outcome))

-----------------------------------------------------------------------------
(* Properties *)

\* half-open intervals [s1, e1) and [s2, e2) overlap
Overlap(s1, e1, s2, e2) == s1 < e2 /\ e1 > s2

WellFormed(b) == b.start_time < b.end_time

SameSlot(a, b) == a.facility_id = b.facility_id /\ a.booking_date = b.booking_date

Active(b) == b.status \in {"pending", "approved"}

BookingIds == {b.id : b \in bookings}

\* C1: for any facility and date, no two distinct bookings whose status is
\* pending or approved have overlapping [start, end) intervals.
C1_NoOverlap ==
    \A a \in bookings, b \in bookings :
        (a.id # b.id /\ SameSlot(a, b) /\ Active(a) /\ Active(b)
            /\ WellFormed(a) /\ WellFormed(b))
        => ~Overlap(a.start_time, a.end_time, b.start_time, b.end_time)

\* C2: of two sessions that each passed the conflict check for the same
\* facility and date with overlapping intervals, at most one gets its booking
\* stored.
C2_AtMostOneSucceeds ==
    \A s1 \in Sessions, s2 \in Sessions :
        (s1 # s2 /\ SameSlot(session[s1], session[s2])
            /\ Overlap(session[s1].start_time, session[s1].end_time,
                       session[s2].start_time, session[s2].end_time)
            /\ ~session[s1].conflict /\ ~session[s2].conflict)
        => ~(session[s1].pc = "inserted" /\ session[s2].pc = "inserted")

\* the booking a conflict check must not count: the excluded one, if any
Excluded(b) == lastCheck.exclude # NullId /\ b.id = lastCheck.exclude

\* an active booking of the queried facility and date
OnQueriedSlot(b) ==
    /\ b.facility_id = lastCheck.facility_id
    /\ b.booking_date = lastCheck.booking_date
    /\ Active(b)

\* C3: check_booking_conflicts called with start < end returns true exactly
\* when a stored booking of the same facility and date, pending or approved,
\* other than the excluded one, has existing.start < end and existing.end > start.
C3_ConflictIffOverlappingActive ==
    (lastCheck.called /\ lastCheck.start_time < lastCheck.end_time)
    => (lastCheck.result <=>
            \E b \in bookings :
                /\ OnQueriedSlot(b)
                /\ ~Excluded(b)
                /\ b.start_time < lastCheck.end_time
                /\ b.end_time > lastCheck.start_time)

\* the example of C3: [09:00, 10:00) is stored and active, [09:30, 10:30) is asked
C3_Witness ==
    /\ lastCheck.called
    /\ lastCheck.start_time = 1 /\ lastCheck.end_time = 3
    /\ lastCheck.exclude = NullId
    /\ \E b \in bookings : OnQueriedSlot(b) /\ b.start_time = 0 /\ b.end_time = 2
    /\ lastCheck.result

\* C4: when the only active booking of a facility and date is [s, e), a query
\* that starts exactly at e or ends exactly at s has no conflict.
C4_TouchingNoConflict ==
    lastCheck.called
    => \A b \in bookings :
           ({r \in bookings : OnQueriedSlot(r)} = {b}
               /\ (lastCheck.start_time = b.end_time \/ lastCheck.end_time = b.start_time))
           => ~lastCheck.result

\* the example of C4: [09:00, 10:00) is the only active booking, [10:00, 10:30) is asked
C4_Witness ==
    /\ lastCheck.called
    /\ lastCheck.exclude = NullId
    /\ \E b \in bookings :
          /\ {r \in bookings : OnQueriedSlot(r)} = {b}
          /\ b.start_time = 0 /\ b.end_time = 2
          /\ lastCheck.start_time = 2 /\ lastCheck.end_time = 3
    /\ ~lastCheck.result

\* the check asks about booking a's own facility, date and interval
AsksOwnInterval(a) ==
    /\ lastCheck.facility_id = a.facility_id
    /\ lastCheck.booking_date = a.booking_date
    /\ lastCheck.start_time = a.start_time
    /\ lastCheck.end_time = a.end_time

\* C5: a check of an active booking's own facility, date and interval that
\* excludes this booking is false when no other active booking of the slot
\* overlaps the interval; the excluded booking never contributes to the
\* result; with no exclusion every active booking is considered.
C5_ExclusionWorks ==
    lastCheck.called
    => /\ \A a \in bookings :
              (Active(a) /\ AsksOwnInterval(a) /\ lastCheck.exclude = a.id
                  /\ ~\E b \in bookings :
                         /\ b.id # a.id /\ SameSlot(a, b) /\ Active(b)
                         /\ Overlap(a.start_time, a.end_time, b.start_time, b.end_time))
              => ~lastCheck.result
       /\ lastCheck.result <=>
              \E b \in {r \in bookings : r.id # lastCheck.exclude} :
                  /\ OnQueriedSlot(b)
                  /\ Overlap(b.start_time, b.end_time, lastCheck.start_time, lastCheck.end_time)
       /\ lastCheck.exclude = NullId
              => (lastCheck.result <=>
                      \E b \in bookings :
                          /\ OnQueriedSlot(b)
                          /\ Overlap(b.start_time, b.end_time,
                                     lastCheck.start_time, lastCheck.end_time))

\* an active booking is checked against its own interval, itself excluded,
\* beside another booking of the table; the answer is no conflict
C5_Witness ==
    /\ lastCheck.called
    /\ Cardinality(bookings) = 2
    /\ \E a \in bookings :
          Active(a) /\ AsksOwnInterval(a) /\ lastCheck.exclude = a.id
    /\ ~lastCheck.result

\* C6: the overlap test is symmetric: for intervals with start < end, A
\* overlaps B exactly when B overlaps A, the two disjuncts of the conflict
\* predicate are equivalent, and the predicate equals the single test
\* existing.start < query.end AND existing.end > query.start.
C6_OverlapSymmetric ==
    /\ \A a \in bookings, b \in bookings :
          ExistingOverlapsQuery(a, b.start_time, b.end_time)
              <=> ExistingOverlapsQuery(b, a.start_time, a.end_time)
    /\ lastCheck.called
          => \A b \in bookings :
                /\ ExistingOverlapsQuery(b, lastCheck.start_time, lastCheck.end_time)
                       <=> QueryOverlapsExisting(b, lastCheck.start_time, lastCheck.end_time)
                /\ ConflictRow(b, lastCheck.facility_id, lastCheck.booking_date,
                               lastCheck.start_time, lastCheck.end_time, lastCheck.exclude)
                       <=> /\ OnQueriedSlot(b)
                           /\ ~Excluded(b)
                           /\ b.start_time < lastCheck.end_time
                           /\ b.end_time > lastCheck.start_time

\* a check whose query overlaps one stored booking and only touches another
C6_Witness ==
    /\ lastCheck.called
    /\ \E a \in bookings, b \in bookings :
          /\ OnQueriedSlot(a) /\ OnQueriedSlot(b)
          /\ ExistingOverlapsQuery(a, lastCheck.start_time, lastCheck.end_time)
          /\ QueryOverlapsExisting(a, lastCheck.start_time, lastCheck.end_time)
          /\ b.end_time = lastCheck.start_time
    /\ lastCheck.result

\* C7: a booking whose facility, date and interval check_booking_conflicts
\* reports as conflicting is not created: no step inserts such a row.
C7_ConflictRejected ==
    [][\A b \in bookings' :
          b.id \notin BookingIds
          => ~check_booking_conflicts(b.facility_id, b.booking_date,
                                      b.start_time, b.end_time, NullId)]_vars

\* C8: every booking POST /api/bookings stores has status pending and payment
\* status pending when it is created.
C8_CreatedPending ==
    [][\A i \in (Len(apiBookings) + 1)..Len(apiBookings') :
          apiBookings'[i].status = "pending" /\ apiBookings'[i].paymentStatus = "pending"]_vars

\* pending->approved, pending->denied, pending->cancelled, approved->cancelled,
\* approved->completed
ValidTransitions ==
    {<<"pending", "approved">>, <<"pending", "denied">>, <<"pending", "cancelled">>,
     <<"approved", "cancelled">>, <<"approved", "completed">>}

\* C9: a booking's status changes only along a valid transition.
C9_OnlyValidTransitions ==
    [][\A a \in bookings, b \in bookings' :
          (a.id = b.id /\ a.status # b.status)
          => <<a.status, b.status>> \in ValidTransitions]_vars

TerminalStatuses == {"denied", "cancelled", "completed"}

\* C10: once a booking's status is denied, cancelled or completed, no step
\* changes it.
C10_TerminalAbsorbing ==
    [][\A a \in bookings, b \in bookings' :
          (a.id = b.id /\ a.status \in TerminalStatuses) => b.status = a.status]_vars

\* the actors the claim lets decide a booking: the owner of its facility, and
\* the administrator, who bypasses the policies
MayDecide(actor, b) ==
    actor.uid = FacilityOwner(b.facility_id) \/ actor.role = "service_role"

\* the actors the claim lets cancel a booking
MayCancel(actor, b) ==
    actor.uid = b.customer_id \/ actor.role = "service_role"

\* C11: a booking becomes approved or denied only by a statement of the owner
\* of its facility, and cancelled only by a statement of its customer or of
\* an administrator: the same statement of any other actor changes nothing.
C11_StatusChangesAuthorized ==
    [][\A actor \in Actors, b \in bookings :
          /\ \A st \in {"approved", "denied"} :
                (b.status # st /\ UpdateBookingStatus(actor, b.id, st))
                => MayDecide(actor, b)
          /\ (b.status # "cancelled" /\ UpdateBookingStatus(actor, b.id, "cancelled"))
                => MayCancel(actor, b)]_vars

\* the status_update notifications of booking id addressed to user u
StatusUpdates(rows, id, u) == CopiesIn(NotificationRow(id, u, "status_update"), rows)

\* C12: a step that changes the status of a booking adds exactly one
\* status_update notification of that booking, addressed to its customer; a
\* step that leaves its status as it was adds none; a new booking has none.
\* So the status_update notifications of a booking count its status changes.
C12_OneStatusUpdatePerChange ==
    [][/\ \A a \in bookings, b \in bookings' :
             a.id = b.id
             => /\ StatusUpdates(booking_notifications', a.id, a.customer_id)
                      = StatusUpdates(booking_notifications, a.id, a.customer_id)
                            + (IF a.status # b.status THEN 1 ELSE 0)
                /\ \A u \in Users \ {a.customer_id} :
                      StatusUpdates(booking_notifications', a.id, u)
                          = StatusUpdates(booking_notifications, a.id, u)
       /\ \A b \in bookings' :
             b.id \notin BookingIds
             => \A u \in Users : StatusUpdates(booking_notifications', b.id, u) = 0]_vars

\* a booking inserted as pending, then approved, then cancelled: two status
\* changes and two status_update notifications to its customer
C12_Witness ==
    \E b \in bookings :
        /\ b.status = "cancelled"
        /\ StatusUpdates(booking_notifications, b.id, b.customer_id) = 2

\* the new_booking notifications of booking id addressed to user u
NewBookingNotifications(rows, id, u) == CopiesIn(NotificationRow(id, u, "new_booking"), rows)

C14_BookingSurvivesNotificationFailure ==
    \A f \in AllFacilities, c \in Customers :
        (RoomForBooking /\ RoomForNotification /\ ~UserExists(FacilityOwner(f)))
        => ENABLED InsertBooking([uid |-> c, role |-> "authenticated"], f, c,
                                 "d1", 0, 1, SampleTotalHours, "pending", "pending")

\* C15: every stored booking has start_time < end_time.
C15_StoredIntervalsWellFormed == \A b \in bookings : WellFormed(b)

\* result, in ten-thousandths of an hour, is seconds / 3600 to the last digit
\* the result carries
IsElapsedHours(result, seconds) ==
    /\ 2 * (result * 3600 - seconds * 10000) <= 3600
    /\ 2 * (seconds * 10000 - result * 3600) <= 3600

\* C16: for end > start, calculate_booking_duration(start, end) is the
\* elapsed seconds divided by 3600, 1.5 for 09:00 and 10:30, and the
\* total_hours of every stored booking with start < end is that value.
C16_DurationIsElapsedHours ==
    /\ (lastDuration.called /\ lastDuration.end_time > lastDuration.start_time)
          => IsElapsedHours(lastDuration.result,
                            lastDuration.end_time - lastDuration.start_time)
    /\ calculate_booking_duration(Seconds(0), Seconds(3)) = 15000
    /\ \A b \in bookings :
          WellFormed(b)
          => b.total_hours
                 = ToTotalHours(calculate_booking_duration(Seconds(b.start_time),
                                                           Seconds(b.end_time)))

\* C17: for end <= start, calculate_booking_duration(start, end) is zero when
\* end = start and below zero when end < start, the elapsed (negative)
\* seconds divided by 3600 and the opposite of the duration from end to
\* start: not raised to zero, not made positive.
C17_DurationNotClamped ==
    (lastDuration.called /\ lastDuration.end_time <= lastDuration.start_time)
    => /\ lastDuration.end_time = lastDuration.start_time => lastDuration.result = 0
       /\ lastDuration.end_time < lastDuration.start_time => lastDuration.result < 0
       /\ IsElapsedHours(lastDuration.result,
                         lastDuration.end_time - lastDuration.start_time)
       /\ lastDuration.result
              = -calculate_booking_duration(lastDuration.end_time, lastDuration.start_time)

\* the duration from 10:30 back to 09:00 is -1.5
C17_Witness ==
    /\ lastDuration.called
    /\ lastDuration.start_time = Seconds(3)
    /\ lastDuration.end_time = Seconds(0)
    /\ lastDuration.result = -15000

\* C18: the total amount of a booking is resolved from the price per hour of
\* its slot and from its hours, never taken from the request: the amount a
\* POST stores is the amount the same POST would store with any other
\* totalPrice in its body.
C18_AmountNotFromCaller ==
    [][\A i \in (Len(apiBookings) + 1)..Len(apiBookings') :
          LET b == apiBookings'[i] IN
          \A totalPrice \in ApiPriceInputs :
              NewApiBooking(b.userId, b.facilityId, b.courtId, b.date, b.timeSlot,
                            totalPrice).totalPrice = b.totalPrice]_vars

\* C19: no step removes a booking: every booking stored before a step is
\* stored after it, with the same id.
C19_BookingsNeverDestroyed ==
    [][\A a \in bookings : \E b \in bookings' : b.id = a.id]_vars

\* no facility has two slots with the same day of week, start and end, and
\* every day of week is in 0..6
ScheduleSlotsUnique ==
    /\ \A a \in facility_schedules, b \in facility_schedules :
          ScheduleKey(a) = ScheduleKey(b) => a = b
    /\ \A a \in facility_schedules : a.day_of_week \in 0..6

\* a step stores no row whose facility, day of week, start and end were
\* those of a row stored before it, unless it replaces that row
NoDuplicateStored ==
    \A r \in facility_schedules' \ facility_schedules :
        \A o \in facility_schedules :
            ScheduleKey(o) = ScheduleKey(r) => o \notin facility_schedules'

\* C20: in every state the slots of a facility differ in (day of week, start,
\* end) and every day of week is in 0..6; an insert of a tuple that is stored
\* already is rejected or ignored and leaves the slots as they were.
C20_ScheduleSlotsUnique ==
    /\ []ScheduleSlotsUnique
    /\ [][/\ NoDuplicateStored
          /\ \A actor \in Actors, f \in AllFacilities, day \in DayInputs,
                iv \in ScheduleIntervalInputs, price \in SchedulePriceInputs :
                (/\ UniqueViolation(facility_schedules,
                                    ScheduleRow(f, day, iv[1], iv[2], price))
                 /\ \/ InsertSchedule(actor, f, day, iv[1], iv[2], price)
                    \/ InsertScheduleOnConflictDoNothing(actor, f, day, iv[1], iv[2], price))
                => UNCHANGED facility_schedules]_vars

\* a full table: three slots of one facility that share the day of week and
\* the start, or the interval, and differ in the rest of the tuple
C20_Witness ==
    /\ Cardinality(facility_schedules) = MaxSlots
    /\ \E a \in facility_schedules, b \in facility_schedules, c \in facility_schedules :
          /\ a.facility_id = b.facility_id /\ b.facility_id = c.facility_id
          /\ a.day_of_week = b.day_of_week /\ a.start_time = b.start_time
          /\ a.end_time # b.end_time
          /\ c.day_of_week # a.day_of_week
          /\ c.start_time = a.start_time /\ c.end_time = a.end_time

\* C21: a booking that is denied, cancelled or completed does not block its
\* slot: check_booking_conflicts for its facility, date and interval reports
\* a conflict only if another booking, pending or approved, overlaps it, and
\* when it reports none an INSERT of a booking for that slot is accepted.
C21_InactiveBookingFreesSlot ==
    \A b \in bookings :
        (b.status \in TerminalStatuses /\ WellFormed(b))
        => /\ check_booking_conflicts(b.facility_id, b.booking_date, b.start_time,
                                      b.end_time, NullId)
                 <=> \E o \in bookings :
                        /\ o.id # b.id /\ Active(o) /\ SameSlot(o, b)
                        /\ Overlap(o.start_time, o.end_time, b.start_time, b.end_time)
           /\ (/\ ~check_booking_conflicts(b.facility_id, b.booking_date, b.start_time,
                                           b.end_time, NullId)
               /\ RoomForBooking
               /\ RoomForNotification)
                 => ENABLED InsertBooking([uid |-> b.customer_id, role |-> "authenticated"],
                                          b.facility_id, b.customer_id, b.booking_date,
                                          b.start_time, b.end_time, SampleTotalHours,
                                          "pending", "pending")

\* a cancelled booking and a later, pending booking of the same facility,
\* date and interval, which nothing else overlaps
C21_Witness ==
    \E a \in bookings, b \in bookings :
        /\ a.status = "cancelled" /\ b.status = "pending" /\ b.id > a.id
        /\ WellFormed(a) /\ SameSlot(a, b)
        /\ a.start_time = b.start_time /\ a.end_time = b.end_time
        /\ ~check_booking_conflicts(b.facility_id, b.booking_date, b.start_time,
                                    b.end_time, b.id)

\* one of the six required fields of a request body is missing or empty
MissingRequired(userId, facilityId, courtId, date, timeSlot) ==
    "" \in {userId, facilityId, courtId, date, timeSlot.start, timeSlot.end}

\* C22: a POST /api/bookings with userId, facilityId, courtId, date,
\* timeSlot.start or timeSlot.end missing or empty answers 400 and leaves the
\* list as it was; any other POST answers 201 and appends exactly one
\* booking, with the fields of the request, to the end of the list.
C22_PostAnswers400Or201 ==
    [][\A userId \in {"", "u1"}, facilityId \in {"", "f1"}, courtId \in {"", "k1"},
          date \in {"", "d1"}, timeSlot \in ApiTimeSlotInputs, totalPrice \in PostPriceInputs :
          PostBooking(userId, facilityId, courtId, date, timeSlot, totalPrice)
          => IF MissingRequired(userId, facilityId, courtId, date, timeSlot)
             THEN apiResponse' = 400 /\ apiBookings' = apiBookings
             ELSE /\ apiResponse' = 201
                  /\ Len(apiBookings') = Len(apiBookings) + 1
                  /\ SubSeq(apiBookings', 1, Len(apiBookings)) = apiBookings
                  /\ LET b == apiBookings'[Len(apiBookings')] IN
                     /\ b.userId = userId /\ b.facilityId = facilityId
                     /\ b.courtId = courtId /\ b.date = date /\ b.timeSlot = timeSlot]_vars

\* a POST answered 400 after a POST that appended a booking
C22_Witness ==
    /\ apiResponse = 400
    /\ Len(apiBookings) > MaxMock

\* the ids of the bookings of the list differ pairwise
ApiIdsUnique ==
    \A i \in DOMAIN apiBookings, j \in DOMAIN apiBookings :
        i # j => apiBookings[i].id # apiBookings[j].id

StoredOrDefault(userId) ==
    IF profiles[userId] = NoProfile THEN DefaultProfile(userId) ELSE profiles[userId]

\* the profiles of all users but userId are as they were
OtherProfilesUnchanged(userId) ==
    \A other \in ProfileUsers \ {userId} : profiles'[other] = profiles[other]

\* C24: a PATCH gives every key present in the body the body's value and
\* leaves every other key of that user's profile at its previous value (the
\* default's, for a profile created by the request); a PUT leaves a profile of
\* exactly the ProfileData fields, those absent from the body (or null) at the
\* empty string and the others at the body's value; neither touches the
\* profile of another user.
C24_PatchMergesPutReplaces ==
    [][\A userId \in ProfileUsers, body \in ProfileBodies :
          /\ PatchProfile(userId, body) =>
                /\ \A k \in ProfileKeys :
                      profiles'[userId][k] =
                          IF body[k] # Undefined THEN body[k] ELSE StoredOrDefault(userId)[k]
                /\ OtherProfilesUnchanged(userId)
          /\ PutProfile(userId, body) =>
                /\ \A k \in ProfileFields :
                      /\ body[k] = Undefined => profiles'[userId][k] = ""
                      /\ body[k] \notin {Undefined, Null} => profiles'[userId][k] = body[k]
                /\ \A k \in ProfileKeys \ ProfileFields : profiles'[userId][k] = Undefined
                /\ OtherProfilesUnchanged(userId)]_vars

\* u1's profile was created by a PATCH of phone alone (fullName is still the
\* default) and u2's was replaced by a PUT of phone alone (fullName is empty)
C24_Witness ==
    /\ profiles["u1"] # NoProfile
    /\ profiles["u1"]["fullName"] = "User u1"
    /\ profiles["u1"]["phone"] = "x"
    /\ profiles["u2"] # NoProfile
    /\ profiles["u2"]["fullName"] = ""
    /\ profiles["u2"]["phone"] = "x"

\* the conversation grew by exactly the message m
AppendedOne(m) == conversation' = Append(conversation, m)

\* the visitor's message is the last one and its reply is awaited
AwaitingReply(n) ==
    /\ isLoading
    /\ Len(conversation) = n
    /\ conversation[n].by = "user"

\* the reply to the visitor's n-th message of the list follows it and loading is over
Replied(n) ==
    /\ ~isLoading
    /\ Len(conversation) = n + 1
    /\ conversation[n].by = "user"
    /\ conversation[n + 1].by = "coach"

\* C25: a submit of blank input changes nothing; an accepted submit appends
\* the visitor's text and sets isLoading; the return of the API call, whatever
\* its outcome, appends one reply and resets isLoading; and every accepted
\* submit is eventually followed by its reply with isLoading = false, so that
\* it has added exactly two messages.
C25_SubmitEndsWithReply ==
    /\ [][/\ handleSubmit /\ Trim(userInput) = << >> => UNCHANGED pageVars
          /\ handleSubmit /\ Trim(userInput) # << >> =>
                /\ AppendedOne(Message("user", userInput))
                /\ isLoading'
          /\ \A outcome \in Outcomes :
                ApiResponds(outcome) =>
                    /\ AppendedOne(Message("coach", callGeminiAPI(outcome)))
                    /\ ~isLoading']_vars
    /\ \A n \in 1..(2 * MaxExchanges + 2) : AwaitingReply(n) ~> Replied(n)

\* a padded word was submitted and the request ended in a network error
C25_Witness ==
    /\ ~isLoading
    /\ Len(conversation) = 3
    /\ conversation[2] = Message("user", <<" ", "a", " ">>)
    /\ conversation[3] = Message("coach", callGeminiAPI("networkError"))

\* C26: the messages at even indices (counted from 0) are the coach's and
\* those at odd indices the visitor's.
C26_ConversationAlternates ==
    \A i \in 1..Len(conversation) :
        conversation[i].by = IF (i - 1) % 2 = 0 THEN "coach" ELSE "user"

\* two exchanges are complete
C26_Witness ==
    /\ ~isLoading
    /\ Len(conversation) = 5
    /\ conversation[4].by = "user"
    /\ conversation[5].by = "coach"

====
